---- MODULE Spec2Model ----
(***************************************************************************)
(* Model of the document editor in src/app.py: the Streamlit session state *)
(* (file_ids, images, current_index), the keyed widget values              *)
(* (current_style, current_brightness, current_contrast), the callbacks    *)
(* bound to the buttons and sliders, and the reorder block of the script.  *)
(*                                                                         *)
(* Python dictionaries are objects: the list `images` holds references to  *)
(* image dictionaries, and each image dictionary holds a reference to its  *)
(* settings dictionary.  Both are modelled as heaps (obj, sett) so that    *)
(* sharing of a dictionary between two entries is expressible.             *)
(*                                                                         *)
(* Every user event runs its callback and then the whole script again      *)
(* (initialize_state, the widgets, the reorder block).  The callback is    *)
(* one step and the script run that follows it another (pc); a change of   *)
(* the uploader or of the table has no callback and is one script run.     *)
(*                                                                         *)
(* Spec is the program as its widgets drive it.  SpecDirect drives         *)
(* update_current_image_settings and the reorder block with values the     *)
(* widgets never hand over.                                                *)
(*                                                                         *)
(* contrast is a float with slider step 0.1; it is held in tenths          *)
(* (1.0 is 10, 3.0 is 30).                                                 *)
(***************************************************************************)
EXTENDS Integers, Sequences, FiniteSets, TLC

\* ---------------------------------------------------------------- bounds

\* Number of distinct uploaded files (file ids 1..NumFiles); an upload batch
\* is any duplicate-free list of them, so it also bounds the document count.
NumFiles == 2

FileIds == 1..NumFiles

\* A file id that is never part of an upload batch.
ForeignId == NumFiles + 1

Addr == 1..NumFiles

\* Values the brightness slider is moved to (within its range -100..100).
BrightnessVals == {0, 20}

\* Values the contrast slider is moved to, in tenths (within 0..30).
ContrastVals == {10, 15}

\* Values the radio and the sliders never produce, for the handler driven
\* directly: a brightness and a contrast (in tenths) out of range, and a
\* style that is not an option.
BadBrightness == 500

BadContrast == 35

BadStyle == "Sepia"

\* ------------------------------------------------------- program constants

Styles == {"Original", "Black & White"}

BrightnessMin == -100

BrightnessMax == 100

ContrastMin == 0

ContrastMax == 30

DefaultSettings ==
    [style |-> "Original", brightness |-> 0, contrast |-> 10, rotate |-> 0]

\* up.name of the upload with file id f.
NameOf(f) == <<"name", f>>

VARIABLES
    uploads,            \* value of st.file_uploader: list of file ids
    file_ids,           \* st.session_state.file_ids
    images,             \* st.session_state.images: list of image references
    obj,                \* heap of image dictionaries
    sett,               \* heap of settings dictionaries
    current_index,      \* st.session_state.current_index
    current_style,      \* st.session_state.current_style (radio)
    current_brightness, \* st.session_state.current_brightness (slider)
    current_contrast,   \* st.session_state.current_contrast (slider)
    pc,                 \* "idle": waiting for the user; "rerun": script to run
    last                \* history: the last user event and its inputs

vars == <<uploads, file_ids, images, obj, sett, current_index,
          current_style, current_brightness, current_contrast, pc, last>>

\* ---------------------------------------------------------------- heap

NoObj == [file_id |-> ForeignId, name |-> <<"name", ForeignId>>, settings |-> 1]

NoSett == [style |-> "-", brightness |-> 0, contrast |-> 0, rotate |-> 0]

\* The session state as one value, threaded through the handlers.
S ==
    [file_ids |-> file_ids, images |-> images, obj |-> obj, sett |-> sett,
     current_index |-> current_index, current_style |-> current_style,
     current_brightness |-> current_brightness,
     current_contrast |-> current_contrast]

Range(q) == {q[i] : i \in 1..Len(q)}

\* Dictionaries no longer referenced from the session state are collected.
Collect(s) ==
    LET liveObj  == Range(s.images)
        liveSett == {s.obj[a].settings : a \in liveObj}
    IN [s EXCEPT !.obj  = [a \in Addr |-> IF a \in liveObj THEN s.obj[a] ELSE NoObj],
                 !.sett = [r \in Addr |-> IF r \in liveSett THEN s.sett[r] ELSE NoSett]]

\* q[i] of a Python list: i counts from 0, a negative i from the end.
PyIndex(q, i) == IF i < 0 THEN q[Len(q) + i + 1] ELSE q[i + 1]

\* images[i]["settings"]
SettingsRef(s, i) == s.obj[PyIndex(s.images, i)].settings

SettingsAt(s, i) == s.sett[SettingsRef(s, i)]

\* images[i]["file_id"], images[i]["name"]
FileIdAt(s, i) == s.obj[PyIndex(s.images, i)].file_id

NameAt(s, i) == s.obj[PyIndex(s.images, i)].name

\* [d["file_id"] for d in display_list]: the ids in page order.
old_file_id_order(s) == [i \in 1..Len(s.images) |-> s.obj[s.images[i]].file_id]

\* ------------------------------------------------ session state, callbacks

\* Variant of initialize_state: the batch is compared with the current page
\* order instead of the stored file_ids.
initialize_state_by_page_order(s, ups) ==
    LET n  == Len(ups)
        s1 == IF old_file_id_order(s) # ups
              THEN [s EXCEPT
                      !.file_ids = ups,
                      !.images = [i \in 1..n |-> i],
                      !.current_index = 0,
                      !.obj = [a \in Addr |->
                                 IF a <= n
                                 THEN [file_id |-> ups[a], name |-> NameOf(ups[a]),
                                       settings |-> a]
                                 ELSE NoObj],
                      !.sett = [r \in Addr |->
                                  IF r <= n THEN DefaultSettings ELSE NoSett]]
              ELSE s
    IN IF s1.current_index >= Len(s1.images)
       THEN [s1 EXCEPT !.current_index = 0]
       ELSE s1

\* initialize_state(uploads): a batch whose id list differs from file_ids
\* replaces the documents (fresh dictionaries, default settings) and resets
\* current_index; then current_index is reset when it is out of range.
initialize_state(s, ups) ==
    LET n  == Len(ups)
        s1 == IF s.file_ids # ups
              THEN [s EXCEPT
                      !.file_ids = ups,
                      !.images = [i \in 1..n |-> i],
                      !.current_index = 0,
                      !.obj = [a \in Addr |->
                                 IF a <= n
                                 THEN [file_id |-> ups[a], name |-> NameOf(ups[a]),
                                       settings |-> a]
                                 ELSE NoObj],
                      !.sett = [r \in Addr |->
                                  IF r <= n THEN DefaultSettings ELSE NoSett]]
              ELSE s
    IN IF s1.current_index >= Len(s1.images)
       THEN [s1 EXCEPT !.current_index = 0]
       ELSE s1

\* Variant of next_image: wraps to the first document at the end.
next_image_wrap(s) ==
    [s EXCEPT !.current_index = (s.current_index + 1) % Len(s.images)]

next_image(s) ==
    IF s.current_index < Len(s.images) - 1
    THEN [s EXCEPT !.current_index = s.current_index + 1]
    ELSE s

\* Variant of prev_image: no test of the lower bound.
prev_image_unguarded(s) ==
    [s EXCEPT !.current_index = s.current_index - 1]

prev_image(s) ==
    IF s.current_index > 0
    THEN [s EXCEPT !.current_index = s.current_index - 1]
    ELSE s

\* Variant of rotate_current_image: no reduction modulo 360.
rotate_no_wrap(s) ==
    LET r == SettingsRef(s, s.current_index)
    IN [s EXCEPT !.sett[r].rotate = s.sett[r].rotate + 90]

rotate_current_image(s) ==
    LET r == SettingsRef(s, s.current_index)
    IN [s EXCEPT !.sett[r].rotate = (s.sett[r].rotate + 90) % 360]

\* Variant of apply_to_all: every entry is given the one dictionary, not a
\* copy of it.
apply_to_all_shared(s) ==
    LET current_settings ==
            [style |-> s.current_style,
             brightness |-> s.current_brightness,
             contrast |-> s.current_contrast,
             rotate |-> SettingsAt(s, s.current_index).rotate]
        live == Range(s.images)
        one  == CHOOSE a \in live : \A b \in live : a <= b
    IN [s EXCEPT
          !.obj  = [a \in Addr |->
                      IF a \in live THEN [s.obj[a] EXCEPT !.settings = one]
                      ELSE s.obj[a]],
          !.sett = [s.sett EXCEPT ![one] = current_settings]]

\* apply_to_all: a dictionary built from the three widget values and the
\* active document's stored rotation; every entry of images gets its own
\* copy of it (the copy of the entry at address a is allocated at a).
apply_to_all(s) ==
    LET current_settings ==
            [style |-> s.current_style,
             brightness |-> s.current_brightness,
             contrast |-> s.current_contrast,
             rotate |-> SettingsAt(s, s.current_index).rotate]
        live == Range(s.images)
    IN [s EXCEPT
          !.obj  = [a \in Addr |->
                      IF a \in live THEN [s.obj[a] EXCEPT !.settings = a]
                      ELSE s.obj[a]],
          !.sett = [r \in Addr |->
                      IF r \in live THEN current_settings ELSE s.sett[r]]]

\* update_current_image_settings: the three widget values are written to the
\* active document's settings dictionary; nothing is validated.
update_current_image_settings(s) ==
    LET r == SettingsRef(s, s.current_index)
    IN [s EXCEPT !.sett[r].style = s.current_style,
                 !.sett[r].brightness = s.current_brightness,
                 !.sett[r].contrast = s.current_contrast]

\* --------------------------------------------------------------- script

\* The values the radio and the sliders accept: a style among the options,
\* a brightness and a contrast within the slider ranges.
ValidWidgets(w) ==
    /\ w.style \in Styles
    /\ BrightnessMin <= w.brightness /\ w.brightness <= BrightnessMax
    /\ ContrastMin <= w.contrast /\ w.contrast <= ContrastMax

\* Variant of Widgets: a widget that already holds a value keeps it; only a
\* widget shown for the first time takes the stored setting.
WidgetsKeepValue(s) ==
    IF s.images = <<>> THEN s
    ELSE IF s.current_style # "-" THEN s
    ELSE LET cs == SettingsAt(s, s.current_index)
         IN [s EXCEPT !.current_style = cs.style,
                      !.current_brightness = cs.brightness,
                      !.current_contrast = cs.contrast]

\* The radio and the two sliders, created with the active document's stored
\* settings as their value.  A style that is not an option, or a slider
\* value outside the slider's range, raises and ends the script run there.
Widgets(s) ==
    IF s.images = <<>> THEN s
    ELSE
    LET cs == SettingsAt(s, s.current_index)
        s1 == [s EXCEPT !.current_style = cs.style]
        s2 == [s1 EXCEPT !.current_brightness = cs.brightness]
        s3 == [s2 EXCEPT !.current_contrast = cs.contrast]
    IN IF ValidWidgets(cs) THEN s3
       ELSE IF cs.style \notin Styles THEN s
       ELSE IF cs.brightness < BrightnessMin \/ cs.brightness > BrightnessMax THEN s1
       ELSE s2

\* One run of the script up to the reorder block: nothing happens while the
\* uploader is empty.
Script(s, ups) ==
    IF ups # <<>> THEN Widgets(initialize_state(s, ups)) ELSE s

\* The reorder block: new_order is the file_id column of the edited table.
\* A changed order rebuilds images through the file_id lookup map and asks
\* for a rerun; an id missing from the map raises before images is assigned.
image_data_map(s, f) ==
    LET hits == {i \in 1..Len(s.images) : s.obj[s.images[i]].file_id = f}
    IN s.images[CHOOSE i \in hits : \A j \in hits : j <= i]

\* Whether the block reaches st.rerun().
reorder_reruns(s, new_order) ==
    /\ old_file_id_order(s) # new_order
    /\ \A i \in 1..Len(new_order) : new_order[i] \in Range(old_file_id_order(s))

\* Variant of reorder_block: the ids and names are put in the new order
\* while each settings dictionary stays at its page position.
reorder_block_by_position(s, new_order) ==
    IF ~reorder_reruns(s, new_order) THEN s
    ELSE [s EXCEPT
            !.obj = [a \in Addr |->
                       IF \E i \in 1..Len(new_order) : s.images[i] = a
                       THEN LET i == CHOOSE i \in 1..Len(new_order) : s.images[i] = a
                            IN [s.obj[a] EXCEPT !.file_id = new_order[i],
                                                !.name = NameOf(new_order[i])]
                       ELSE s.obj[a]]]

reorder_block(s, new_order) ==
    IF ~reorder_reruns(s, new_order) THEN s
    ELSE [s EXCEPT !.images =
            [i \in 1..Len(new_order) |-> image_data_map(s, new_order[i])]]

\* -------------------------------------------------------------- inputs

Injective(q) == \A i, j \in 1..Len(q) : q[i] = q[j] => i = j

SeqsUpTo(U, n) == UNION {[1..k -> U] : k \in 0..n}

\* What the uploader can hold: a list of distinct files, possibly empty.
UploadLists == {q \in SeqsUpTo(FileIds, NumFiles) : Injective(q)}

\* What the table editor can hand back: the same rows in another order.
Reorderings(s) ==
    {q \in [1..Len(s.images) -> Range(old_file_id_order(s))] :
        Injective(q) /\ q # old_file_id_order(s)}

\* An exact permutation of the current ids.
IsPermutation(s, q) ==
    /\ Len(q) = Len(s.images)
    /\ Injective(q)
    /\ Range(q) = Range(old_file_id_order(s))

NoWidgets == [style |-> "-", brightness |-> 0, contrast |-> 0]

WidgetsOf(s) ==
    [style |-> s.current_style, brightness |-> s.current_brightness,
     contrast |-> s.current_contrast]

\* op: the event; idx0: current_index before it; arg: the id list of a load
\* or reorder; w: the widget values of an update; after_apply: an update
\* that directly follows an apply-to-all.
Event(op, arg, w) ==
    [op |-> op, idx0 |-> current_index, arg |-> arg, w |-> w,
     after_apply |-> (op = "update" /\ last.op = "apply")]

\* ------------------------------------------------------------- actions
\* A user event runs its callback (pc becomes "rerun") and then the script
\* runs again (RunScript, pc back to "idle").

Commit(s0) ==
    \E s \in {Collect(s0)} :
       /\ file_ids' = s.file_ids
       /\ images' = s.images
       /\ obj' = s.obj
       /\ sett' = s.sett
       /\ current_index' = s.current_index
       /\ current_style' = s.current_style
       /\ current_brightness' = s.current_brightness
       /\ current_contrast' = s.current_contrast

\* The buttons, the radio and the sliders exist once the script has shown
\* the editor for a non-empty upload.
EditorShown == pc = "idle" /\ uploads # <<>> /\ images # <<>>

\* The radio, the sliders, the rotate and apply buttons and the table come
\* after the navigation buttons: they exist when the last script run got
\* past the creation of the radio and the sliders.
ControlsShown ==
    /\ EditorShown
    /\ ValidWidgets(SettingsAt(S, current_index))

Init ==
    /\ uploads = <<>>
    /\ file_ids = <<>>
    /\ images = <<>>
    /\ obj = [a \in Addr |-> NoObj]
    /\ sett = [r \in Addr |-> NoSett]
    /\ current_index = 0
    /\ current_style = NoWidgets.style
    /\ current_brightness = NoWidgets.brightness
    /\ current_contrast = NoWidgets.contrast
    /\ pc = "idle"
    /\ last = [op |-> "init", idx0 |-> 0, arg |-> <<>>, w |-> NoWidgets,
               after_apply |-> FALSE]

\* The script runs: initialize_state(uploads), then the widgets.  The table
\* comes back as shown, so the reorder block does nothing.
RunScript ==
    /\ pc = "rerun"
    /\ Commit(Script(S, uploads))
    /\ pc' = "idle"
    /\ UNCHANGED <<uploads, last>>

\* The uploader now holds the batch u and the script runs with it (it has
\* no callback; u = uploads is a run asked for by another widget of the
\* page, such as the cropper).
Upload(u) ==
    /\ pc = "idle"
    /\ uploads' = u
    /\ Commit(Script(S, u))
    /\ last' = Event("load", u, NoWidgets)
    /\ UNCHANGED pc

NextImage ==
    /\ EditorShown
    /\ Commit(next_image(S))
    /\ pc' = "rerun"
    /\ last' = Event("next", <<>>, NoWidgets)
    /\ UNCHANGED uploads

PrevImage ==
    /\ EditorShown
    /\ Commit(prev_image(S))
    /\ pc' = "rerun"
    /\ last' = Event("prev", <<>>, NoWidgets)
    /\ UNCHANGED uploads

RotateCurrentImage ==
    /\ ControlsShown
    /\ Commit(rotate_current_image(S))
    /\ pc' = "rerun"
    /\ last' = Event("rotate", <<>>, NoWidgets)
    /\ UNCHANGED uploads

ApplyToAll ==
    /\ ControlsShown
    /\ Commit(apply_to_all(S))
    /\ pc' = "rerun"
    /\ last' = Event("apply", <<>>, NoWidgets)
    /\ UNCHANGED uploads

\* The user changes one widget to the value in w; its on_change callback
\* runs with the widget values as they now are.
WidgetChange(w) ==
    /\ ControlsShown
    /\ w # WidgetsOf(S)
    /\ Commit(update_current_image_settings(
                 [S EXCEPT !.current_style = w.style,
                           !.current_brightness = w.brightness,
                           !.current_contrast = w.contrast]))
    /\ pc' = "rerun"
    /\ last' = Event("update", <<>>, w)
    /\ UNCHANGED uploads

OneWidgetChanged(w) ==
    \/ w = [WidgetsOf(S) EXCEPT !.style = w.style]
    \/ w = [WidgetsOf(S) EXCEPT !.brightness = w.brightness]
    \/ w = [WidgetsOf(S) EXCEPT !.contrast = w.contrast]

UpdateCurrentImageSettings ==
    \E w \in [style : Styles, brightness : BrightnessVals, contrast : ContrastVals] :
        OneWidgetChanged(w) /\ WidgetChange(w)

\* The table editor hands back the rows in a new order: the script runs up
\* to the reorder block, which reorders images and asks for a rerun.
Reorder ==
    /\ ControlsShown
    /\ \E s \in {Script(S, uploads)} :
         \E q \in Reorderings(s) :
            /\ Commit(reorder_block(s, q))
            /\ pc' = IF reorder_reruns(s, q) THEN "rerun" ELSE "idle"
            /\ last' = Event("reorder", q, NoWidgets)
    /\ UNCHANGED uploads

Next ==
    \/ RunScript
    \/ \E u \in UploadLists : Upload(u)
    \/ NextImage
    \/ PrevImage
    \/ RotateCurrentImage
    \/ ApplyToAll
    \/ UpdateCurrentImageSettings
    \/ Reorder

Spec == Init /\ [][Next]_vars

\* ------------------------------------- handlers driven outside the widgets

\* update_current_image_settings run with one widget value the radio and the
\* sliders would not offer.
UpdateDirect ==
    \E w \in [style : Styles \cup {BadStyle},
               brightness : BrightnessVals \cup {BadBrightness},
               contrast : ContrastVals \cup {BadContrast}] :
        /\ w.style = BadStyle \/ w.brightness = BadBrightness \/ w.contrast = BadContrast
        /\ OneWidgetChanged(w)
        /\ WidgetChange(w)

\* The reorder block run with an id list that is not a permutation of the
\* current ids: an id missing, an id twice, or an id of no document.
ReorderDirect ==
    /\ ControlsShown
    /\ \E s \in {Script(S, uploads)} :
         \E q \in SeqsUpTo(FileIds \cup {ForeignId}, NumFiles) :
            /\ ~IsPermutation(s, q)
            /\ Commit(reorder_block(s, q))
            /\ pc' = IF reorder_reruns(s, q) THEN "rerun" ELSE "idle"
            /\ last' = Event("reorder_direct", q, NoWidgets)
    /\ UNCHANGED uploads

\* Loading, navigation and editing as above, and the two handlers driven
\* directly.
NextDirect ==
    \/ RunScript
    \/ \E u \in UploadLists : Upload(u)
    \/ NextImage
    \/ PrevImage
    \/ UpdateCurrentImageSettings
    \/ UpdateDirect
    \/ ReorderDirect

SpecDirect == Init /\ [][NextDirect]_vars

\* ------------------------------------------------------------ properties

Min(a, b) == IF a <= b THEN a ELSE b

Max(a, b) == IF a >= b THEN a ELSE b

Positions(s) == 0..(Len(s.images) - 1)

IdsOf(s) == Range(old_file_id_order(s))

\* The settings and the name of the document with file id f.
IdxOfId(s, f) == CHOOSE i \in Positions(s) : FileIdAt(s, i) = f

SettingsOfId(s, f) == SettingsAt(s, IdxOfId(s, f))

NameOfId(s, f) == NameAt(s, IdxOfId(s, f))

\* The documents: what the session state holds apart from the widgets.
docs == <<file_ids, images, obj, sett, current_index>>

\* The step is the user event op: its callback, or for a reorder the script
\* run that finds the table changed.
Did(op) == pc = "idle" /\ last'.op = op

\* The step is a script run that reaches the end of initialize_state(uploads')
\* and leaves the table as it is.
ScriptRuns == pc = "rerun" \/ Did("load")

\* C1: whenever the document sequence is non-empty, current_index is one of
\* its positions, 0 <= current_index <= len - 1.
C1_ActiveIndexValid ==
    images # <<>> => current_index \in Positions(S)

C1_Witness ==
    /\ last.op = "reorder"
    /\ Len(images) >= 2
    /\ current_index = Len(images) - 1

\* C2: a reorder with a permutation of the ids leaves the documents in the
\* given id order, and every id keeps its settings and its name.
C2_ReorderKeepsDocuments ==
    [][Did("reorder") =>
         /\ old_file_id_order(S') = last'.arg
         /\ IdsOf(S') = IdsOf(S)
         /\ \A f \in IdsOf(S) :
               /\ SettingsOfId(S', f) = SettingsOfId(S, f)
               /\ NameOfId(S', f) = NameOfId(S, f)]_vars

C2_Witness ==
    /\ last.op = "reorder"
    /\ Len(images) >= 2
    /\ old_file_id_order(S) # file_ids
    /\ SettingsAt(S, 0) # SettingsAt(S, 1)
    /\ SettingsAt(S, 0) # DefaultSettings

\* C3 (as claimed): after a reorder current_index points at the document
\* that was active before it.
C3_ActiveFollowsDocument ==
    [][Did("reorder") =>
         FileIdAt(S', current_index') = FileIdAt(S, current_index)]_vars

C5_ApplyCopiesActive ==
    [][Did("apply") =>
         /\ \A i \in Positions(S') : SettingsAt(S', i) = SettingsAt(S, current_index)
         /\ old_file_id_order(S') = old_file_id_order(S)
         /\ current_index' = current_index]_vars

C5_Witness ==
    /\ last.op = "apply"
    /\ Len(images) >= 2
    /\ current_index > 0
    /\ SettingsAt(S, 0).rotate # 0
    /\ SettingsAt(S, 0).brightness # DefaultSettings.brightness
    /\ SettingsAt(S, 0).style # DefaultSettings.style

\* C6 (as claimed): an update with a value out of range changes nothing of
\* the documents.
C6_InvalidUpdateRejected ==
    [][(Did("update") /\ ~ValidWidgets(last'.w)) => UNCHANGED docs]_vars

\* C7 (as claimed): a reorder with an id list that is not a permutation of
\* the current ids changes nothing of the documents.
C7_InvalidReorderRejected ==
    [][Did("reorder_direct") => UNCHANGED docs]_vars

\* C8: every document's rotation is 0, 90, 180 or 270; rotate sets the
\* active document's rotation to (old + 90) mod 360 and changes no other
\* field of it and no setting of another document.
C8_RotationStep ==
    Did("rotate") =>
        /\ SettingsAt(S', current_index) =
              [SettingsAt(S, current_index) EXCEPT
                 !.rotate = (SettingsAt(S, current_index).rotate + 90) % 360]
        /\ \A i \in Positions(S) \ {current_index} :
              SettingsAt(S', i) = SettingsAt(S, i)
        /\ old_file_id_order(S') = old_file_id_order(S)
        /\ current_index' = current_index

C8_Rotation ==
    /\ [](\A i \in Positions(S) : SettingsAt(S, i).rotate \in {0, 90, 180, 270})
    /\ [][C8_RotationStep]_vars

C8_Witness ==
    /\ last.op = "rotate"
    /\ Len(images) >= 2
    /\ SettingsAt(S, current_index).rotate = 0
    /\ \E i \in Positions(S) : SettingsAt(S, i).rotate = 270

\* C9: an update with values the widgets offer overwrites the active
\* document's style, brightness and contrast with them and nothing else:
\* its rotation, every other document's settings, the order and
\* current_index stay, also when the update follows an apply-to-all.
C9_UpdateTouchesActiveOnly ==
    [][(Did("update") /\ ValidWidgets(last'.w)) =>
         /\ SettingsAt(S', current_index) =
               [style |-> last'.w.style, brightness |-> last'.w.brightness,
                contrast |-> last'.w.contrast,
                rotate |-> SettingsAt(S, current_index).rotate]
         /\ \A i \in Positions(S) \ {current_index} :
               SettingsAt(S', i) = SettingsAt(S, i)
         /\ old_file_id_order(S') = old_file_id_order(S)
         /\ current_index' = current_index]_vars

C9_Witness ==
    /\ last.op = "update"
    /\ last.after_apply
    /\ Len(images) >= 2
    /\ SettingsAt(S, current_index).rotate # 0
    /\ \E i \in Positions(S) :
          /\ SettingsAt(S, i) # SettingsAt(S, current_index)
          /\ SettingsAt(S, i) # DefaultSettings

\* C10: next sets current_index to min(current_index + 1, len - 1) and
\* previous to max(current_index - 1, 0); neither changes the sequence or
\* any settings.
C10_NavigationClamped ==
    [][/\ Did("next") =>
           /\ current_index' = Min(current_index + 1, Len(images) - 1)
           /\ UNCHANGED <<file_ids, images, obj, sett>>
       /\ Did("prev") =>
           /\ current_index' = Max(current_index - 1, 0)
           /\ UNCHANGED <<file_ids, images, obj, sett>>]_vars

C10_Witness ==
    /\ last.op = "next"
    /\ Len(images) >= 2
    /\ last.idx0 = Len(images) - 1
    /\ current_index = last.idx0

====
